---- MODULE Spec2Model ----
(***************************************************************************)
(* Versioned-document repository (src/knowledge/repo.py), the Drive-backed *)
(* FAISS shard manager (src/embeddings/faiss_drive.py) and the editor's    *)
(* save-and-index handler (pages/1_Editor_de_Livro.py), over a model of    *)
(* the Google Drive folders they write (src/storage/drive.py).             *)
(*                                                                         *)
(* Strings are sequences of one-character strings, so that slugs, file     *)
(* names, UTF-8 bytes and lexical order are computed as the code computes  *)
(* them.  A Python dict is a function from its keys to its values.         *)
(***************************************************************************)
EXTENDS Integers, Sequences, FiniteSets, TLC

VARIABLES
    folders,    \* names of the Drive folders that exist
    versoes,    \* files of the folder APP_FOLDER/versoes, in creation order (file id = position)
    faiss,      \* files of the folder APP_FOLDER/vecstore/faiss, in creation order
    now,        \* int(time.time()) as the next handler reads it
    session,    \* the editor page's st.session_state: current_doc_id, and whether current_doc is set
    ret,        \* what the last call was given, what it found and what it returned or raised
    nm,         \* two (source, version_index) pairs of a document and their blob names
    writers     \* the calls in progress of two sessions that run at the same time

vars == <<folders, versoes, faiss, now, session, ret, nm, writers>>

---------------------------------------------------------------------------
(* Bounds of the model *)

\* files the versoes folder may hold
MaxFiles == 4
\* the value the clock may reach: each handler that reads it advances it
MaxTime == 2

---------------------------------------------------------------------------
(* Characters and strings *)

\* the characters the model's strings are made of, by increasing code point
Alphabet ==
    << " ", "-", ".", "0", "1", "2", "3", "4", "5", "6", "7", "8", "9",
       "A", "_",
       "a", "b", "c", "d", "e", "f", "g", "h", "i", "j", "k", "l", "m",
       "n", "o", "p", "q", "r", "s", "t", "u", "v", "w", "x", "y", "z",
       "é" >>

\* their Unicode code points, in the same order
CodePoints ==
    << 32, 45, 46, 48, 49, 50, 51, 52, 53, 54, 55, 56, 57,
       65, 95,
       97, 98, 99, 100, 101, 102, 103, 104, 105, 106, 107, 108, 109,
       110, 111, 112, 113, 114, 115, 116, 117, 118, 119, 120, 121, 122,
       233 >>

ord(c) == CodePoints[CHOOSE i \in 1..Len(Alphabet) : Alphabet[i] = c]

chr(n) == Alphabet[CHOOSE i \in 1..Len(CodePoints) : CodePoints[i] = n]

LowerLetters ==
    { "a", "b", "c", "d", "e", "f", "g", "h", "i", "j", "k", "l", "m",
      "n", "o", "p", "q", "r", "s", "t", "u", "v", "w", "x", "y", "z" }

Digits == << "0", "1", "2", "3", "4", "5", "6", "7", "8", "9" >>

DigitChars == { Digits[i] : i \in 1..Len(Digits) }

\* Python's str < str: by code point, a proper prefix first
RECURSIVE StrLess(_, _)
StrLess(s, t) ==
    IF t = <<>> THEN FALSE
    ELSE IF s = <<>> THEN TRUE
    ELSE IF Head(s) = Head(t) THEN StrLess(Tail(s), Tail(t))
    ELSE ord(Head(s)) < ord(Head(t))

\* str(n) for n >= 0
RECURSIVE str(_)
str(n) ==
    IF n < 10 THEN << Digits[n + 1] >>
    ELSE str(n \div 10) \o << Digits[(n % 10) + 1] >>

\* the width of {version_index:03d}
PadWidth == 3

RECURSIVE zfill(_, _)
zfill(s, width) == IF Len(s) >= width THEN s ELSE zfill(<<"0">> \o s, width)

\* an index written without padding
format_unpadded(n) == str(n)

\* f"{n:03d}"
format_03d(n) == zfill(str(n), PadWidth)

\* str.encode("utf-8"), one character
utf8_char(c) ==
    LET cp == ord(c)
    IN  IF cp < 128 THEN << cp >>
        ELSE << 192 + (cp \div 64), 128 + (cp % 64) >>

RECURSIVE encode_utf8(_)
encode_utf8(s) ==
    IF s = <<>> THEN <<>> ELSE utf8_char(Head(s)) \o encode_utf8(Tail(s))

\* bytes.decode("utf-8")
RECURSIVE decode_utf8(_)
decode_utf8(b) ==
    IF b = <<>> THEN <<>>
    ELSE IF b[1] < 128 THEN << chr(b[1]) >> \o decode_utf8(Tail(b))
    ELSE << chr((b[1] - 192) * 64 + (b[2] - 128)) >> \o decode_utf8(Tail(Tail(b)))

---------------------------------------------------------------------------
(* src/knowledge/repo.py: names *)

\* unidecode(), one character: the only non-ASCII character of the alphabet
unidecode_char(c) == IF c = "é" THEN "e" ELSE c

unidecode(s) == [i \in 1..Len(s) |-> unidecode_char(s[i])]

\* str.lower(), one character: the only upper-case letter of the alphabet
lower_char(c) == IF c = "A" THEN "a" ELSE c

lower(s) == [i \in 1..Len(s) |-> lower_char(s[i])]

RECURSIVE lstrip(_, _)
lstrip(s, chars) ==
    IF s # <<>> /\ Head(s) \in chars THEN lstrip(Tail(s), chars) ELSE s

RECURSIVE rstrip(_, _)
rstrip(s, chars) ==
    IF s # <<>> /\ s[Len(s)] \in chars
    THEN rstrip(SubSeq(s, 1, Len(s) - 1), chars)
    ELSE s

strip(s, chars) == rstrip(lstrip(s, chars), chars)

\* re.sub(pattern+, "-", s) for a pattern that matches one character of `bad`
RECURSIVE sub_runs(_, _)
sub_runs(s, bad) ==
    IF s = <<>> THEN <<>>
    ELSE IF Head(s) \in bad
         THEN <<"-">> \o sub_runs(lstrip(s, bad), bad)
         ELSE << Head(s) >> \o sub_runs(Tail(s), bad)

AlphabetChars == { Alphabet[i] : i \in 1..Len(Alphabet) }

\* the complement of [a-z0-9\-]
slug_ok == AlphabetChars \ (LowerLetters \cup DigitChars \cup {"-"})

replace_char(s, old, new) == [i \in 1..Len(s) |-> IF s[i] = old THEN new ELSE s[i]]

slugify(s) ==
    IF s = <<>> THEN <<"x">>
    ELSE LET s1 == strip(lower(unidecode(s)), {" "})
             s2 == replace_char(replace_char(s1, " ", "-"), "_", "-")
             s3 == sub_runs(s2, slug_ok)
             s4 == strip(sub_runs(s3, {"-"}), {"-"})
         IN  IF s4 = <<>> THEN <<"x">> ELSE s4

json_name(doc_id) == doc_id \o << ".", "j", "s", "o", "n" >>

\* the blob name of _write_version_txt
version_txt_name(doc_id, source, version_index) ==
    slugify(doc_id) \o <<"_", "_">> \o slugify(source) \o <<"_", "_">>
        \o format_03d(version_index) \o << ".", "t", "x", "t" >>

---------------------------------------------------------------------------
(* src/storage/drive.py: a folder is the sequence of its files *)

APP_FOLDER == "Apps/AgenteLivro"

VERSOES_DIR == "versoes"

TRANSCRICAO_DIR == "transcricao"

\* modifiedTime is the time of the call that wrote the file
File(name, data, mime, ts) ==
    [name |-> name, data |-> data, mime |-> mime, modifiedTime |-> ts]

\* the ids of the files a name query lists.  find_file returns files[0] of a
\* listing whose order the query does not fix, so any of them may come back
\* (and None when the set is empty).
find_file(files, name) == { i \in 1..Len(files) : files[i].name = name }

\* always creates a file, whatever files of that name exist
upload_bytes(files, name, data, mime, ts) == Append(files, File(name, data, mime, ts))

update_file_bytes(files, file_id, name, data, mime, ts) ==
    [files EXCEPT ![file_id] = File(name, data, mime, ts)]

download_file(files, file_id) == files[file_id].data

\* ensure_app_folder then ensure_subfolder: both create what is missing
folder_id(existing, subfolder) == existing \cup {APP_FOLDER, subfolder}

---------------------------------------------------------------------------
(* src/knowledge/repo.py: manifests and version blobs *)

EmptyDict == [k \in {} |-> 0]

\* the meta keys whose values are strings
StrKeys == {"source", "version_tag"}

DefaultSource == << "v", "e", "r", "s", "a", "o" >>

\* (meta or {}).get("source", "versao")
source_of(meta) == IF "source" \in DOMAIN meta THEN meta["source"] ELSE DefaultSource

encode_dict(d) == [k \in DOMAIN d |-> IF k \in StrKeys THEN encode_utf8(d[k]) ELSE d[k]]

decode_dict(d) == [k \in DOMAIN d |-> IF k \in StrKeys THEN decode_utf8(d[k]) ELSE d[k]]

encode_version(v) ==
    [ts |-> v.ts, text |-> encode_utf8(v.text), meta |-> encode_dict(v.meta)]

decode_version(v) ==
    [ts |-> v.ts, text |-> decode_utf8(v.text), meta |-> decode_dict(v.meta)]

\* json.dumps(payload, ensure_ascii=False).encode("utf-8"): the structure is
\* kept and every string in it is written as its UTF-8 bytes
json_dumps(payload) ==
    [id |-> encode_utf8(payload.id),
     created_at |-> payload.created_at,
     versions |-> [i \in 1..Len(payload.versions) |->
                      encode_version(payload.versions[i])]]

\* json.loads(data.decode("utf-8"))
json_loads(data) ==
    [id |-> decode_utf8(data.id),
     created_at |-> data.created_at,
     versions |-> [i \in 1..Len(data.versions) |->
                      decode_version(data.versions[i])]]

\* bytes that are no UTF-8 JSON text
GarbageJson == [garbage |-> TRUE]

\* json.loads(data.decode("utf-8")) returns (it raises a ValueError otherwise)
json_ok(data) == "versions" \in DOMAIN data

JSON_MIME == "application/json; charset=UTF-8"

TXT_MIME == "text/plain; charset=UTF-8"

write_version_txt(files, doc_id, text, version_index, source, ts) ==
    upload_bytes(files, version_txt_name(doc_id, source, version_index),
                 encode_utf8(text), TXT_MIME, ts)

\* a save_doc that records a first version whether or not text came
first_versions_always(text, meta, ts) ==
    << [ts |-> ts, text |-> text, meta |-> meta] >>

\* the versions save_doc puts in a new manifest: `if text:`
first_versions(text, meta, ts) ==
    IF text # <<>> THEN << [ts |-> ts, text |-> text, meta |-> meta] >> ELSE <<>>

\* the folder after save_doc: a new manifest file, and the v1 blob if text came
save_doc(files, doc_id, text, meta, ts) ==
    LET payload == [id |-> doc_id, created_at |-> ts,
                    versions |-> first_versions(text, meta, ts)]
        f1 == upload_bytes(files, json_name(doc_id), json_dumps(payload), JSON_MIME, ts)
    IN  IF text # <<>>
        THEN write_version_txt(f1, doc_id, text, 1, source_of(meta), ts)
        ELSE f1

\* a get_doc that takes a manifest without versions for a missing one
get_doc_needs_versions(files, doc_id) ==
    LET fids == find_file(files, json_name(doc_id))
    IN  IF fids = {}
        THEN { [status |-> "FileNotFoundError", value |-> 0] }
        ELSE { IF json_loads(download_file(files, fid)).versions = <<>>
               THEN [status |-> "FileNotFoundError", value |-> 0]
               ELSE [status |-> "ok", value |-> json_loads(download_file(files, fid))] :
                   fid \in fids }

\* the outcomes of get_doc: FileNotFoundError, the manifest of the file found,
\* or the ValueError of json.loads
get_doc(files, doc_id) ==
    LET fids == find_file(files, json_name(doc_id))
    IN  IF fids = {}
        THEN { [status |-> "FileNotFoundError", value |-> 0] }
        ELSE { IF json_ok(download_file(files, fid))
               THEN [status |-> "ok", value |-> json_loads(download_file(files, fid))]
               ELSE [status |-> "ValueError", value |-> 0] :
                   fid \in fids }

\* an append_version that drops the caller's meta
appended_version_no_meta(text, meta, ts) == [ts |-> ts, text |-> text, meta |-> EmptyDict]

\* the version append_version adds to the manifest it read
appended_version(text, meta, ts) == [ts |-> ts, text |-> text, meta |-> meta]

\* an append_version that leaves the folder alone when the last version of
\* the manifest already holds the text
append_found_once(files, fid, doc_id, text, meta, ts) ==
    LET current == json_loads(download_file(files, fid))
        updated == [current EXCEPT
                       !.versions = Append(@, appended_version(text, meta, ts))]
        f1 == update_file_bytes(files, fid, json_name(doc_id),
                                json_dumps(updated), JSON_MIME, ts)
    IN  IF current.versions # <<>>
              /\ current.versions[Len(current.versions)].text = text
        THEN files
        ELSE write_version_txt(f1, doc_id, text, Len(updated.versions),
                               source_of(meta), ts)

\* the folder after append_version found the manifest in file fid
append_found(files, fid, doc_id, text, meta, ts) ==
    LET current == json_loads(download_file(files, fid))
        updated == [current EXCEPT
                       !.versions = Append(@, appended_version(text, meta, ts))]
        f1 == update_file_bytes(files, fid, json_name(doc_id),
                                json_dumps(updated), JSON_MIME, ts)
    IN  write_version_txt(f1, doc_id, text, Len(updated.versions), source_of(meta), ts)

\* an append_version that gives up when there is no manifest
append_absent_gives_up(files, doc_id, text, meta, ts) == files

\* the folder after append_version found no manifest
append_absent(files, doc_id, text, meta, ts) == save_doc(files, doc_id, text, meta, ts)

\* the outcomes of append_version: the folder it leaves and how it ends; the
\* ValueError of json.loads leaves the folder as it was
append_version(files, doc_id, text, meta, ts) ==
    LET fids == find_file(files, json_name(doc_id))
    IN  IF fids = {}
        THEN { [files |-> append_absent(files, doc_id, text, meta, ts), status |-> "ok"] }
        ELSE { IF json_ok(download_file(files, fid))
               THEN [files |-> append_found(files, fid, doc_id, text, meta, ts),
                     status |-> "ok"]
               ELSE [files |-> files, status |-> "ValueError"] :
                   fid \in fids }

---------------------------------------------------------------------------
(* src/embeddings/faiss_drive.py: shards *)

FAISS_DIRNAME == "faiss"

GLOBAL_INDEX_BASENAME ==
    << "_", "g", "l", "o", "b", "a", "l", ".", "f", "a", "i", "s", "s", ".", "z", "i", "p" >>

FaissSuffix == << ".", "f", "a", "i", "s", "s", ".", "z", "i", "p" >>

name_for_doc(doc_id) == doc_id \o FaissSuffix

ZIP_MIME == "application/zip"

\* _faiss_folder_id: APP_FOLDER/vecstore/faiss, each created when missing
faiss_folder_id(existing) == existing \cup {APP_FOLDER, "vecstore", FAISS_DIRNAME}

\* the outcomes of _put_file_bytes: the file found is updated, or one is created
put_file_bytes(files, name, data, ts) ==
    LET fids == find_file(files, name)
    IN  IF fids = {}
        THEN { upload_bytes(files, name, data, ZIP_MIME, ts) }
        ELSE { update_file_bytes(files, fid, name, data, ZIP_MIME, ts) : fid \in fids }

\* the dimensionality of the vectors of OpenAIEmbeddings(api_key=...), and that
\* of the vectors of another embedding model
NativeDim == "native"

ForeignDim == "foreign"

\* a FAISS store is the sequence of its (text, metadata) entries; the vector of
\* an entry is a function of its text, and only its dimensionality is kept
Entry(text, metadata) == [text |-> text, metadata |-> metadata, dim |-> NativeDim]

\* the dimensionality of a store's index (a store is never empty)
dim_of(vs) == vs[1].dim

\* _save_vectorstore_to_zip_bytes: the index files under faiss_index/
save_vectorstore_to_zip_bytes(vs) ==
    [kind |-> "zip", dir |-> "faiss_index", entries |-> vs]

\* bytes that are no zip of an index
Garbage == [kind |-> "garbage", dir |-> "", entries |-> <<>>]

\* _load_vectorstore_from_zip_bytes: the store, or an exception
load_vectorstore_from_zip_bytes(zip_bytes) ==
    IF zip_bytes.kind = "zip"
    THEN [ok |-> TRUE, vs |-> zip_bytes.entries]
    ELSE [ok |-> FALSE, vs |-> <<>>]

Bootstrap == << "_", "_", "b", "o", "o", "t", "s", "t", "r", "a", "p", "_", "_" >>

empty_index == << Entry(Bootstrap, [bootstrap |-> TRUE]) >>

\* a variant of _load_or_create_index without the except: a blob that does not
\* load yields no result
load_or_create_index_strict(files, name) ==
    LET fids == find_file(files, name)
    IN  IF fids = {}
        THEN { [vs |-> empty_index, existed |-> FALSE] }
        ELSE { [vs |-> load_vectorstore_from_zip_bytes(download_file(files, fid)).vs,
                existed |-> TRUE] :
                  fid \in { i \in fids :
                              load_vectorstore_from_zip_bytes(download_file(files, i)).ok } }

\* the outcomes of _load_or_create_index: (store, existed)
load_or_create_index(files, name) ==
    LET fids == find_file(files, name)
    IN  IF fids = {}
        THEN { [vs |-> empty_index, existed |-> FALSE] }
        ELSE { LET r == load_vectorstore_from_zip_bytes(download_file(files, fid))
               IN  IF r.ok THEN [vs |-> r.vs, existed |-> TRUE]
                   ELSE [vs |-> empty_index, existed |-> FALSE] : fid \in fids }

save_index(files, name, vs, ts) ==
    put_file_bytes(files, name, save_vectorstore_to_zip_bytes(vs), ts)

\* a variant of add_texts that starts a new index from the texts
add_texts_fresh(vs, texts, metadatas) ==
    [i \in 1..Len(texts) |-> Entry(texts[i], metadatas[i])]

\* a variant of add_texts that skips the texts the index already holds
add_texts_dedup(vs, texts, metadatas) ==
    vs \o SelectSeq([i \in 1..Len(texts) |-> Entry(texts[i], metadatas[i])],
                    LAMBDA e : \A k \in 1..Len(vs) : vs[k].text # e.text)

\* FAISS.add_texts
add_texts(vs, texts, metadatas) ==
    vs \o [i \in 1..Len(texts) |-> Entry(texts[i], metadatas[i])]

\* dict.setdefault
setdefault(d, k, v) == IF k \in DOMAIN d THEN d ELSE (k :> v) @@ d

\* "enriquecer metadados": metadatas or [{} for _ in texts], doc_id and created_at defaulted
enriched(doc_id, texts, metadatas, ts) ==
    LET metas == IF metadatas = <<>> THEN [i \in 1..Len(texts) |-> EmptyDict] ELSE metadatas
    IN  [i \in 1..Len(metas) |->
            setdefault(setdefault(metas[i], "doc_id", doc_id), "created_at", ts)]

\* one of the two steps of an upsert: load or create, add, save; add_texts
\* raises on an index of another dimensionality, and nothing is saved then
load_add_save(files, name, texts, metadatas, ts) ==
    UNION { IF dim_of(l.vs) = NativeDim
            THEN { [ok |-> TRUE, files |-> f] :
                      f \in save_index(files, name, add_texts(l.vs, texts, metadatas), ts) }
            ELSE { [ok |-> FALSE, files |-> files] } :
               l \in load_or_create_index(files, name) }

Outcome(files, status, value) == [files |-> files, status |-> status, value |-> value]

\* where the embedding call of an upsert fails: nowhere, in the step of the
\* document's shard, or in the step of the global shard
EmbedFails == {"none", "doc", "global"}

\* a variant of embed_step whose add_texts embeds the texts a second time
embed_step_retrying(files, name, step, texts) ==
    (IF \E l \in load_or_create_index(files, name) : ~l.existed
     THEN << [step |-> step, texts |-> << Bootstrap >>] >>
     ELSE <<>>)
    \o << [step |-> step, texts |-> texts], [step |-> step, texts |-> texts] >>

\* the lists of texts that one step of an upsert hands to the embedding
\* function: the placeholder when _empty_index creates the index, then the
\* texts of add_texts
embed_step(files, name, step, texts) ==
    (IF \E l \in load_or_create_index(files, name) : ~l.existed
     THEN << [step |-> step, texts |-> << Bootstrap >>] >>
     ELSE <<>>)
    \o << [step |-> step, texts |-> texts] >>

\* the embedding calls of upsert_texts_to_drive_index, in order; the step of
\* the global shard is reached when that of the document's shard has saved
embed_log(files, doc_id, texts, fail) ==
    IF texts = <<>> THEN <<>>
    ELSE LET doc == embed_step(files, name_for_doc(doc_id), "doc", texts)
             saved == /\ fail # "doc"
                      /\ \A l \in load_or_create_index(files, name_for_doc(doc_id)) :
                            dim_of(l.vs) = NativeDim
             \* the folder the step of the global shard finds: the blob names
             \* and what loads, as the step of the document's shard left them
             after == CHOOSE d \in load_add_save(files, name_for_doc(doc_id), texts,
                                        [i \in 1..Len(texts) |-> EmptyDict], 0) : TRUE
         IN  IF saved
             THEN doc \o embed_step(after.files, GLOBAL_INDEX_BASENAME, "global", texts)
             ELSE doc

\* the embedding call of an upsert that fails, of those it reaches
embed_failed(files, doc_id, texts, fail) ==
    LET log == embed_log(files, doc_id, texts, fail)
    IN  IF log # <<>> /\ log[Len(log)].step = fail THEN fail ELSE "none"

\* the outcomes of upsert_texts_to_drive_index
upsert_texts_to_drive_index(files, doc_id, texts, metadatas, ts, fail) ==
    IF texts = <<>> THEN { Outcome(files, "ok", 0) }
    ELSE IF fail = "doc" THEN { Outcome(files, "EmbeddingError", 0) }
    ELSE LET metas == enriched(doc_id, texts, metadatas, ts)
             docSaved == load_add_save(files, name_for_doc(doc_id), texts, metas, ts)
         IN  UNION { IF ~d.ok THEN { Outcome(d.files, "DimensionError", 0) }
                     ELSE IF fail = "global" THEN { Outcome(d.files, "EmbeddingError", 0) }
                     ELSE { IF g.ok THEN Outcome(g.files, "ok", Len(texts))
                            ELSE Outcome(g.files, "DimensionError", 0) :
                               g \in load_add_save(d.files, GLOBAL_INDEX_BASENAME,
                                                   texts, metas, ts) } :
                        d \in docSaved }

endswith(s, suffix) ==
    Len(s) >= Len(suffix) /\ SubSeq(s, Len(s) - Len(suffix) + 1, Len(s)) = suffix

\* orderBy modifiedTime desc (of two files written at the same time, the later file first)
RECURSIVE by_modified_desc(_, _)
by_modified_desc(files, ids) ==
    IF ids = {} THEN <<>>
    ELSE LET i == CHOOSE j \in ids : \A k \in ids :
                      \/ files[k].modifiedTime < files[j].modifiedTime
                      \/ files[k].modifiedTime = files[j].modifiedTime /\ k <= j
         IN  << i >> \o by_modified_desc(files, ids \ {i})

\* list_files_in_folder(name_suffix=".faiss.zip") without the global shard
all_doc_zips(files) ==
    by_modified_desc(files, { i \in 1..Len(files) :
                                 /\ endswith(files[i].name, FaissSuffix)
                                 /\ files[i].name # GLOBAL_INDEX_BASENAME })

\* a variant of the merge loop that keeps the last shard loaded instead of merging
RECURSIVE merge_all_last(_, _, _, _)
merge_all_last(files, ids, merged, sources) ==
    IF ids = <<>> THEN [merged |-> merged, sources |-> sources, raised |-> FALSE]
    ELSE LET r == load_vectorstore_from_zip_bytes(download_file(files, Head(ids)))
         IN  IF ~r.ok THEN merge_all_last(files, Tail(ids), merged, sources)
             ELSE merge_all_last(files, Tail(ids), r.vs, sources + 1)

\* a variant of the merge loop that ends at the first shard that does not load
RECURSIVE merge_all_stops(_, _, _, _)
merge_all_stops(files, ids, merged, sources) ==
    IF ids = <<>> THEN [merged |-> merged, sources |-> sources, raised |-> FALSE]
    ELSE LET r == load_vectorstore_from_zip_bytes(download_file(files, Head(ids)))
         IN  IF ~r.ok THEN [merged |-> merged, sources |-> sources, raised |-> FALSE]
             ELSE IF merged = <<>> THEN merge_all_stops(files, Tail(ids), r.vs, sources + 1)
             ELSE IF dim_of(merged) # dim_of(r.vs)
             THEN [merged |-> merged, sources |-> sources, raised |-> TRUE]
             ELSE merge_all_stops(files, Tail(ids), merged \o r.vs, sources + 1)

\* the merge loop: (merged, sources) after the files of the listing `ids`;
\* merged is <<>> while it is None; merge_from raises on an index of another
\* dimensionality, outside the try of the load
RECURSIVE merge_all(_, _, _, _)
merge_all(files, ids, merged, sources) ==
    IF ids = <<>> THEN [merged |-> merged, sources |-> sources, raised |-> FALSE]
    ELSE LET r == load_vectorstore_from_zip_bytes(download_file(files, Head(ids)))
         IN  IF ~r.ok THEN merge_all(files, Tail(ids), merged, sources)
             ELSE IF merged = <<>> THEN merge_all(files, Tail(ids), r.vs, sources + 1)
             ELSE IF dim_of(merged) # dim_of(r.vs)
             THEN [merged |-> merged, sources |-> sources, raised |-> TRUE]
             ELSE merge_all(files, Tail(ids), merged \o r.vs, sources + 1)

\* a variant of the rebuild that gives up when no shard was merged
rebuild_global_needs_shards(files, ts, fail) ==
    LET m == merge_all(files, all_doc_zips(files), <<>>, 0)
    IN  IF m.raised THEN { Outcome(files, "DimensionError", 0) }
        ELSE IF m.merged = <<>> THEN { Outcome(files, "RuntimeError", 0) }
        ELSE { Outcome(f, "ok", m.sources) :
                 f \in save_index(files, GLOBAL_INDEX_BASENAME, m.merged, ts) }

\* the outcomes of rebuild_global_from_all_docs; `fail`: the embedding call
\* of _empty_index fails
rebuild_global_from_all_docs(files, ts, fail) ==
    LET ids == all_doc_zips(files)
        m == merge_all(files, ids, <<>>, 0)
    IN  IF m.raised THEN { Outcome(files, "DimensionError", 0) }
        ELSE IF m.merged = <<>>
        THEN IF fail THEN { Outcome(files, "EmbeddingError", 0) }
             ELSE { Outcome(f, "ok", 0) :
                      f \in save_index(files, GLOBAL_INDEX_BASENAME, empty_index, ts) }
        ELSE { Outcome(f, "ok", m.sources) :
                 f \in save_index(files, GLOBAL_INDEX_BASENAME, m.merged, ts) }

---------------------------------------------------------------------------
(* Inputs *)

\* two document ids with the same slug
DocIds == { <<"e">>, <<"é">> }

Texts == { <<>>, <<"a">>, <<"é">> }

ManualEdit == << "m", "a", "n", "u", "a", "l", "-", "e", "d", "i", "t" >>

Picked == << "p", "i", "c", "k", "e", "d" >>

\* the metas a caller of the repository passes: none, a source, and a source
\* with an index of the caller's own
Metas == { EmptyDict, [source |-> ManualEdit], [source |-> Picked, version_index |-> 1] }

Manifests(files, doc_id) ==
    { json_loads(files[i].data) : i \in find_file(files, json_name(doc_id)) }

\* the texts lists an upsert is given
TextLists == { <<>>, << <<"é">> >>, << <<"a">>, <<"a">> >> }

\* the metadatas an upsert is given with them: None, or one dict per text
MetadataLists(texts) == { <<>>, [i \in 1..Len(texts) |-> [source |-> Picked]] }

---------------------------------------------------------------------------
(* The repository's operations as steps *)

NoCall ==
    [op |-> "none", doc_id |-> <<>>, text |-> <<>>, meta |-> EmptyDict,
     existed |-> FALSE, status |-> "ok", value |-> 0]

NoNames ==
    [doc_id |-> <<>>, source_a |-> <<>>, index_a |-> 0, a |-> <<>>,
     source_b |-> <<>>, index_b |-> 0, b |-> <<>>]

NoSession == [current_doc_id |-> <<>>, has_current_doc |-> FALSE]

\* the sessions that may run a call at the same time
Writers == {1, 2}

\* a session that has started no call
Idle ==
    [pc |-> "idle", doc_id |-> <<>>, text |-> <<>>, meta |-> EmptyDict, fid |-> 0,
     current |-> <<>>, ts |-> 0, order |-> 0]

Init ==
    /\ folders = {}
    /\ versoes = <<>>
    /\ faiss = <<>>
    /\ now = 0
    /\ session = NoSession
    /\ ret = NoCall
    /\ nm = NoNames
    /\ writers = [w \in Writers |-> Idle]

Call(op, doc_id, text, meta, status, value) ==
    [op |-> op, doc_id |-> doc_id, text |-> text, meta |-> meta,
     existed |-> find_file(versoes, json_name(doc_id)) # {},
     status |-> status, value |-> value]

SaveDoc(doc_id, text, meta) ==
    /\ now < MaxTime
    /\ Len(save_doc(versoes, doc_id, text, meta, now)) <= MaxFiles
    /\ versoes' = save_doc(versoes, doc_id, text, meta, now)
    /\ folders' = folder_id(folders, VERSOES_DIR)
    /\ ret' = Call("save_doc", doc_id, text, meta, "ok", Len(versoes) + 1)
    /\ now' = now + 1
    /\ UNCHANGED <<writers, faiss, session, nm>>

GetDoc(doc_id) ==
    /\ \E r \in get_doc(versoes, doc_id) :
          ret' = Call("get_doc", doc_id, <<>>, EmptyDict, r.status, r.value)
    /\ folders' = folder_id(folders, VERSOES_DIR)
    /\ UNCHANGED <<writers, versoes, faiss, now, session, nm>>

AppendVersion(doc_id, text, meta) ==
    /\ now < MaxTime
    /\ \E o \in append_version(versoes, doc_id, text, meta, now) :
          /\ Len(o.files) <= MaxFiles
          /\ versoes' = o.files
          /\ ret' = Call("append_version", doc_id, text, meta, o.status, 0)
    /\ folders' = folder_id(folders, VERSOES_DIR)
    /\ now' = now + 1
    /\ UNCHANGED <<writers, faiss, session, nm>>

Next ==
    \/ \E d \in DocIds, t \in Texts, m \in Metas : SaveDoc(d, t, m)
    \/ \E d \in DocIds : GetDoc(d)
    \/ \E d \in DocIds, t \in Texts, m \in Metas : AppendVersion(d, t, m)

Spec == Init /\ [][Next]_vars

\* the bytes of a manifest are damaged outside the program
CorruptManifest(fid) ==
    /\ versoes[fid].mime = JSON_MIME
    /\ versoes[fid].data # GarbageJson
    /\ versoes' = [versoes EXCEPT ![fid].data = GarbageJson]
    /\ ret' = Call("none", <<>>, <<>>, EmptyDict, "ok", 0)
    /\ UNCHANGED <<writers, folders, faiss, now, session, nm>>

NextCorrupt ==
    \/ Next
    \/ \E fid \in 1..Len(versoes) : CorruptManifest(fid)

\* the repository's operations on a folder whose manifests may be damaged
SpecCorrupt == Init /\ [][NextCorrupt]_vars

---------------------------------------------------------------------------
(* pages/1_Editor_de_Livro.py: the handlers of the editor page *)

\* the documents that have a manifest in the folder transcricao, which this
\* program reads and never writes
TranscricaoDocs == { <<"é">> }

\* the metas the page's buttons pass to _save_and_index
EditorMetas ==
    { [source |-> ManualEdit], [source |-> Picked],
      [source |-> Picked, canonical |-> TRUE] }

\* _next_version_meta, given the number of versions it counted
next_version_meta(meta_base, doc_id, count) ==
    ("version_index" :> (count + 1))
        @@ ("version_tag" :> (doc_id \o <<"_", "v">> \o str(count + 1)))
        @@ meta_base

\* the number of versions _next_version_meta counts in what get_doc gave it
count_versions(r) == IF r.status = "ok" THEN Len(r.value.versions) ELSE 0

\* the folder after _ensure_doc_in_versoes_with
ensure_doc_in_versoes_with(files, doc_id, text_for_first_save, meta, ts) ==
    IF \E r \in get_doc(files, doc_id) : r.status = "ok"
    THEN files
    ELSE save_doc(files, doc_id, text_for_first_save, meta, ts)

\* the form "Documento": open the document, create it, or start from its
\* transcription
Carregar(doc_id, action) ==
    LET found == \E r \in get_doc(versoes, doc_id) : r.status = "ok"
        create == ~found /\ action = "Criar novo"
        bootstrap == ~found /\ action = "Abrir" /\ doc_id \in TranscricaoDocs
    IN  /\ create => now < MaxTime
        /\ versoes' = IF create
                      THEN save_doc(versoes, doc_id, <<>>, [created_at |-> now], now)
                      ELSE versoes
        /\ Len(versoes') <= MaxFiles
        /\ session' = [current_doc_id |-> doc_id,
                       has_current_doc |-> session.has_current_doc \/ found
                                              \/ create \/ bootstrap]
        /\ folders' = IF ~found /\ action = "Abrir"
                      THEN folder_id(folder_id(folders, VERSOES_DIR), TRANSCRICAO_DIR)
                      ELSE folder_id(folders, VERSOES_DIR)
        /\ ret' = Call("carregar", doc_id, <<>>, EmptyDict, "ok", 0)
        /\ now' = IF create THEN now + 1 ELSE now
        /\ UNCHANGED <<writers, faiss, nm>>

\* _save_and_index on the page's current document.  The except branch around
\* append_version is never taken: append_version raises no FileNotFoundError.
SaveAndIndex(text, meta_base, fail) ==
    LET doc_id == session.current_doc_id
    IN  /\ session.has_current_doc
        /\ now < MaxTime
        \* the buttons of the history promote the text of a saved version
        /\ meta_base["source"] = Picked =>
              \E m \in Manifests(versoes, doc_id) :
                 \E k \in 1..Len(m.versions) : m.versions[k].text = text
        /\ \E r \in get_doc(versoes, doc_id) :
              LET meta == next_version_meta(meta_base, doc_id, count_versions(r))
                  ensured == ensure_doc_in_versoes_with(versoes, doc_id, text, meta, now)
              IN  /\ \E a \in append_version(ensured, doc_id, text, meta, now) :
                        /\ a.status = "ok"
                        /\ Len(a.files) <= MaxFiles
                        /\ versoes' = a.files
                  /\ \E o \in upsert_texts_to_drive_index(faiss, doc_id, << text >>,
                                                           << meta >>, now, fail) :
                        /\ faiss' = o.files
                        /\ ret' = Call("save_and_index", doc_id, text, meta_base,
                                       o.status, 0)
        /\ folders' = faiss_folder_id(folder_id(folders, VERSOES_DIR))
        /\ now' = now + 1
        /\ UNCHANGED <<writers, session, nm>>

NextEditor ==
    \/ \E d \in DocIds, a \in {"Abrir", "Criar novo"} : Carregar(d, a)
    \/ \E t \in Texts, m \in EditorMetas, f \in EmbedFails : SaveAndIndex(t, m, f)

SpecEditor == Init /\ [][NextEditor]_vars

---------------------------------------------------------------------------
(* The naming of version blobs, applied to pairs of versions of a document *)

Sources == { ManualEdit, Picked, DefaultSource }

\* version indexes around the widths of the padded index
VersionIndexes == { 1, 2, 9, 10, 99, 100, 999, 1000 }

NameVersions(doc_id, source_a, index_a, source_b, index_b) ==
    /\ index_a < index_b
    /\ nm' = [doc_id |-> doc_id,
              source_a |-> source_a, index_a |-> index_a,
              a |-> version_txt_name(doc_id, source_a, index_a),
              source_b |-> source_b, index_b |-> index_b,
              b |-> version_txt_name(doc_id, source_b, index_b)]
    /\ UNCHANGED <<writers, folders, versoes, faiss, now, session, ret>>

NextNames ==
    \E d \in DocIds, sa \in Sources, sb \in Sources :
       \E ia \in VersionIndexes, ib \in VersionIndexes : NameVersions(d, sa, ia, sb, ib)

SpecNames == Init /\ [][NextNames]_vars

---------------------------------------------------------------------------
(* The shard manager's operations as steps *)

ShardCall(op, doc_id, texts, metadatas, status, value) ==
    [op |-> op, doc_id |-> doc_id, text |-> texts, meta |-> metadatas,
     existed |-> FALSE, status |-> status, value |-> value]

Upsert(doc_id, texts, metadatas, fail) ==
    /\ now < MaxTime
    /\ \E o \in upsert_texts_to_drive_index(faiss, doc_id, texts, metadatas, now, fail) :
          /\ faiss' = o.files
          /\ ret' = ShardCall("upsert", doc_id, texts, metadatas, o.status, o.value)
                      @@ [embedded |-> embed_log(faiss, doc_id, texts, fail),
                          failed |-> embed_failed(faiss, doc_id, texts, fail)]
    /\ folders' = IF texts = <<>> THEN folders ELSE faiss_folder_id(folders)
    /\ now' = IF texts = <<>> THEN now ELSE now + 1
    /\ UNCHANGED <<writers, versoes, session, nm>>

RebuildGlobal(fail) ==
    /\ \E o \in rebuild_global_from_all_docs(faiss, now, fail) :
          /\ faiss' = o.files
          /\ ret' = ShardCall("rebuild_global", <<>>, <<>>, <<>>, o.status, o.value)
    /\ folders' = faiss_folder_id(folders)
    /\ UNCHANGED <<writers, versoes, now, session, nm>>

\* the bytes of a shard blob are damaged outside the program
CorruptShard(fid) ==
    /\ faiss[fid].data # Garbage
    /\ faiss' = [faiss EXCEPT ![fid].data = Garbage]
    /\ ret' = ShardCall("none", <<>>, <<>>, <<>>, "ok", 0)
    /\ UNCHANGED <<writers, folders, versoes, now, session, nm>>

\* the shard blob of a document holds an index built with another embedding
\* model (the shards do not record the model that produced them)
ForeignShard(fid) ==
    /\ faiss[fid].name # GLOBAL_INDEX_BASENAME
    /\ faiss[fid].data.kind = "zip"
    /\ dim_of(faiss[fid].data.entries) = NativeDim
    /\ faiss' = [faiss EXCEPT ![fid].data.entries =
                    [k \in 1..Len(@) |-> [@[k] EXCEPT !.dim = ForeignDim]]]
    /\ ret' = ShardCall("none", <<>>, <<>>, <<>>, "ok", 0)
    /\ UNCHANGED <<writers, folders, versoes, now, session, nm>>

NextShards ==
    \/ \E d \in DocIds, t \in TextLists, f \in EmbedFails :
          \E m \in MetadataLists(t) : Upsert(d, t, m, f)
    \/ \E f \in BOOLEAN : RebuildGlobal(f)
    \/ \E fid \in 1..Len(faiss) : CorruptShard(fid)
    \/ \E fid \in 1..Len(faiss) : ForeignShard(fid)

SpecShards == Init /\ [][NextShards]_vars

---------------------------------------------------------------------------
(* pages/3_Assistente.py: retrieval from the global shard *)

\* _drive_ids: the folders of the page, each created when missing
drive_ids(existing) ==
    existing \cup {APP_FOLDER, "vecstore", FAISS_DIRNAME, "memory", VERSOES_DIR, "chats"}

\* _load_faiss_from_zip_bytes of the page: the store, or an exception
load_faiss_from_zip_bytes(zip_bytes) ==
    IF zip_bytes.kind = "zip"
    THEN [ok |-> TRUE, vs |-> zip_bytes.entries]
    ELSE [ok |-> FALSE, vs |-> <<>>]

\* what fails in a question to the assistant: nothing, the embedding of the
\* placeholder, or the embedding of the query
SearchFails == {"none", "bootstrap", "query"}

\* the folders _get_global_zip_bytes may have after its rebuild, made when the
\* global shard is missing; an exception of the rebuild is swallowed
global_rebuilt(files, ts, fail) ==
    IF find_file(files, GLOBAL_INDEX_BASENAME) # {} THEN { files }
    ELSE { o.files : o \in rebuild_global_from_all_docs(files, ts, fail = "bootstrap") }

\* the outcomes of _get_global_zip_bytes when its result is not cached: the
\* folder it leaves and the bytes of the global shard, which it creates with
\* the placeholder alone when the rebuild left none
get_global_zip_bytes(files, ts, fail) ==
    UNION { IF find_file(f, GLOBAL_INDEX_BASENAME) # {}
            THEN { [ok |-> TRUE, files |-> f, data |-> download_file(f, fid)] :
                      fid \in find_file(f, GLOBAL_INDEX_BASENAME) }
            ELSE IF fail = "bootstrap"
            THEN { [ok |-> FALSE, files |-> f, data |-> Garbage] }
            ELSE { [ok |-> TRUE,
                    files |-> upload_bytes(f, GLOBAL_INDEX_BASENAME,
                                           save_vectorstore_to_zip_bytes(empty_index),
                                           ZIP_MIME, ts),
                    data |-> save_vectorstore_to_zip_bytes(empty_index)] } :
               f \in global_rebuilt(files, ts, fail) }

\* the slider "Top-K acervo" (2 to 12, 6 when untouched)
KGlobal == {2, 6}

\* the possible results of the retriever (search_type "mmr", k): k entries of
\* the index, all of them when it holds fewer; which ones depends on the
\* vectors.  No entry is filtered out.
mmr(vs, k) ==
    { { vs[i] : i \in S } :
         S \in { T \in SUBSET (1..Len(vs)) :
                    Cardinality(T) = (IF k < Len(vs) THEN k ELSE Len(vs)) } }

\* acervo_docs: nothing for small talk, and nothing when the retriever raises
\* (the embedding of the query fails, or the index has another dimensionality)
acervo_docs(vs, k, smalltalk, fail) ==
    IF smalltalk \/ fail = "query" \/ dim_of(vs) # NativeDim THEN { {} }
    ELSE mmr(vs, k)

SearchCall(status, docs) ==
    [op |-> "search", doc_id |-> <<>>, text |-> <<>>, meta |-> <<>>,
     existed |-> FALSE, status |-> status, value |-> docs]

\* a question in the chat of the assistant: the global shard is loaded (the
\* page stops when that fails) and the retriever is asked
Perguntar(k_global, smalltalk, fail) ==
    /\ \E z \in get_global_zip_bytes(faiss, now, fail) :
          /\ faiss' = z.files
          /\ IF ~z.ok \/ ~load_faiss_from_zip_bytes(z.data).ok
             THEN ret' = SearchCall("stopped", {})
             ELSE \E docs \in acervo_docs(load_faiss_from_zip_bytes(z.data).vs,
                                          k_global, smalltalk, fail) :
                     ret' = SearchCall("ok", docs)
    /\ folders' = drive_ids(folders)
    /\ UNCHANGED <<writers, versoes, now, session, nm>>

NextAssistente ==
    \/ NextShards
    \/ \E k \in KGlobal, s \in BOOLEAN, f \in SearchFails : Perguntar(k, s, f)

SpecAssistente == Init /\ [][NextAssistente]_vars

---------------------------------------------------------------------------
(* src/knowledge/repo.py: append_version run by two sessions at once *)

\* a variant of the manifest append_version writes that reads the manifest
\* again at the time of the write
append_updated_rereading(files, fid, current, text, meta, ts) ==
    [json_loads(download_file(files, fid)) EXCEPT
        !.versions = Append(@, appended_version(text, meta, ts))]

\* the manifest append_version writes: the one it read, with the new version
append_updated(files, fid, current, text, meta, ts) ==
    [current EXCEPT !.versions = Append(@, appended_version(text, meta, ts))]

\* the clock after the manifest is read: it may have ticked
Ticks == { t \in {now, now + 1} : t <= MaxTime }

\* the manifest writes made so far
Writes == Cardinality({ w \in Writers : writers[w].order > 0 })

\* append_version up to json.loads: the manifest is found and read
AppendRead(w, doc_id, text, meta) ==
    /\ writers[w].pc = "idle"
    /\ \E fid \in find_file(versoes, json_name(doc_id)) :
          /\ json_ok(download_file(versoes, fid))
          /\ writers' = [writers EXCEPT ![w] =
                [pc |-> "read", doc_id |-> doc_id, text |-> text, meta |-> meta,
                 fid |-> fid, current |-> json_loads(download_file(versoes, fid)),
                 ts |-> now, order |-> 0]]
    /\ folders' = folder_id(folders, VERSOES_DIR)
    /\ now' \in Ticks
    /\ UNCHANGED <<versoes, faiss, session, ret, nm>>

\* append_version: update_file_bytes overwrites the manifest
AppendWriteManifest(w) ==
    LET p == writers[w]
    IN  /\ p.pc = "read"
        /\ versoes' = update_file_bytes(versoes, p.fid, json_name(p.doc_id),
                         json_dumps(append_updated(versoes, p.fid, p.current,
                                                   p.text, p.meta, p.ts)),
                         JSON_MIME, now)
        /\ writers' = [writers EXCEPT ![w].pc = "written", ![w].order = Writes + 1]
        /\ UNCHANGED <<folders, faiss, now, session, ret, nm>>

\* append_version: _write_version_txt with the index len(current["versions"])
AppendWriteBlob(w) ==
    LET p == writers[w]
        files == write_version_txt(versoes, p.doc_id, p.text,
                                   Len(p.current.versions) + 1, source_of(p.meta), now)
    IN  /\ p.pc = "written"
        /\ Len(files) <= MaxFiles
        /\ versoes' = files
        /\ writers' = [writers EXCEPT ![w].pc = "done"]
        /\ ret' = Call("append_version", p.doc_id, p.text, p.meta, "ok", 0)
        /\ UNCHANGED <<folders, faiss, now, session, nm>>

\* the texts and metas the two sessions append
RaceTexts == { <<"a">>, <<"é">> }

RaceMetas == { EmptyDict, [source |-> ManualEdit] }

NextRace ==
    \/ \E d \in DocIds, t \in RaceTexts : SaveDoc(d, t, EmptyDict)
    \/ \E w \in Writers, d \in DocIds, t \in RaceTexts, m \in RaceMetas :
          AppendRead(w, d, t, m)
    \/ \E w \in Writers : AppendWriteManifest(w)
    \/ \E w \in Writers : AppendWriteBlob(w)

SpecRace == Init /\ [][NextRace]_vars

---------------------------------------------------------------------------
(* src/embeddings/faiss_drive.py: upserts whose caller supplies metadata keys *)

OtherDoc == << "o" >>

\* the metadata a caller hands over for one text
CallerMetas ==
    { EmptyDict,
      [source |-> Picked],
      [doc_id |-> OtherDoc],
      [created_at |-> 0 - 1],
      [doc_id |-> OtherDoc, created_at |-> 0 - 1] }

\* the lists of one text
OneText == { << <<"a">> >>, << <<"é">> >> }

NextMeta ==
    \/ \E d \in DocIds, t \in OneText, m \in CallerMetas : Upsert(d, t, << m >>, "none")
    \/ \E d \in DocIds, t \in OneText : Upsert(d, t, <<>>, "none")
    \/ RebuildGlobal(FALSE)

SpecMeta == Init /\ [][NextMeta]_vars

---------------------------------------------------------------------------
(* src/embeddings/vectorstore_faiss.py: create_faiss_index and its splitter *)

\* CharacterTextSplitter(chunk_size=1500, chunk_overlap=100): the two sizes,
\* scaled down; the splitter's algorithm is the same for every pair of sizes
ChunkSize == 4

ChunkOverlap == 1

\* the splitter's default separator, a blank line
Separator == << "\n", "\n" >>

Whitespace == { " ", "\n" }

\* re.split(separator, text) from position i on, cur being the piece in progress
RECURSIVE re_split(_, _, _)
re_split(text, i, cur) ==
    IF i > Len(text) THEN << cur >>
    ELSE IF i < Len(text) /\ SubSeq(text, i, i + 1) = Separator
         THEN << cur >> \o re_split(text, i + 2, <<>>)
         ELSE re_split(text, i + 1, Append(cur, text[i]))

\* _split_text_with_regex: the pieces between separators, the empty ones dropped
split_text_with_regex(text) ==
    SelectSeq(re_split(text, 1, <<>>), LAMBDA s : s # <<>>)

\* separator.join(docs)
RECURSIVE join(_, _)
join(docs, separator) ==
    IF docs = <<>> THEN <<>>
    ELSE IF Len(docs) = 1 THEN docs[1]
    ELSE docs[1] \o separator \o join(Tail(docs), separator)

\* _join_docs: the pieces joined and stripped, as a list of no or one chunk
join_docs(docs, separator) ==
    LET text == strip(join(docs, separator), Whitespace)
    IN  IF text = <<>> THEN <<>> ELSE << text >>

SepLen(current_doc, least) == IF Len(current_doc) > least THEN Len(Separator) ELSE 0

\* the while loop of _merge_splits: pieces leave the front of current_doc
\* until what remains is at most the overlap and leaves room for the next piece
RECURSIVE drop_front(_, _, _)
drop_front(current_doc, total, len) ==
    IF \/ total > ChunkOverlap
       \/ (total + len + SepLen(current_doc, 0) > ChunkSize /\ total > 0)
    THEN drop_front(Tail(current_doc),
                    total - (Len(current_doc[1]) + SepLen(current_doc, 1)), len)
    ELSE [current_doc |-> current_doc, total |-> total]

\* _merge_splits from piece i on
RECURSIVE merge_splits(_, _, _, _)
merge_splits(splits, i, current_doc, total) ==
    IF i > Len(splits) THEN join_docs(current_doc, Separator)
    ELSE LET len == Len(splits[i])
             full == total + len + SepLen(current_doc, 0) > ChunkSize
                        /\ Len(current_doc) > 0
             kept == IF full THEN drop_front(current_doc, total, len)
                     ELSE [current_doc |-> current_doc, total |-> total]
             next == Append(kept.current_doc, splits[i])
         IN  (IF full THEN join_docs(current_doc, Separator) ELSE <<>>)
             \o merge_splits(splits, i + 1, next, kept.total + len + SepLen(next, 1))

\* CharacterTextSplitter.split_text
split_text(text) == merge_splits(split_text_with_regex(text), 1, <<>>, 0)

\* the loop of create_faiss_index: the chunks of every text, with the
\* metadata of the text repeated for each of its chunks
RECURSIVE chunks_of_all(_, _, _)
chunks_of_all(texts, metadata, i) ==
    IF i > Len(texts) THEN <<>>
    ELSE LET chunks == split_text(texts[i])
             m == IF i <= Len(metadata) THEN metadata[i] ELSE EmptyDict
         IN  [k \in 1..Len(chunks) |-> [chunk |-> chunks[k], meta |-> m]]
             \o chunks_of_all(texts, metadata, i + 1)

Placeholder == << [chunk |-> << " " >>, meta |-> EmptyDict] >>

\* a variant of the guard against an empty index that leaves the list as it is
placeholder_if_empty_never(all_chunks) == all_chunks

\* "if not all_chunks": the single-space chunk stands in for an empty list
placeholder_if_empty(all_chunks) == IF all_chunks = <<>> THEN Placeholder ELSE all_chunks

\* the chunks and metadata create_faiss_index hands to FAISS.from_texts
all_chunks_and_metas(texts, metadata) ==
    placeholder_if_empty(chunks_of_all(texts, metadata, 1))

\* create_faiss_index: the index, or RuntimeError when the embedding fails
create_faiss_index(texts, metadata, fail) ==
    IF fail THEN [status |-> "RuntimeError", index |-> <<>>]
    ELSE LET all == all_chunks_and_metas(texts, metadata)
         IN  [status |-> "ok",
              index |-> [k \in 1..Len(all) |-> Entry(all[k].chunk, all[k].meta)]]

\* the texts handed to create_faiss_index: every text of up to one character
\* more than the chunk size
ChunkAlphabet == { "a", "b", "\n" }

ChunkTexts == UNION { [1..n -> ChunkAlphabet] : n \in 0..(ChunkSize + 1) }

ShortTexts == { t \in ChunkTexts : Len(t) <= 1 }

ChunkInputs ==
    { <<>> } \cup { << t >> : t \in ChunkTexts }
             \cup { << s, t >> : s \in ShortTexts, t \in ShortTexts }

CreateFaissIndex(texts, metadata, fail) ==
    LET r == create_faiss_index(texts, metadata, fail)
    IN  /\ ret = NoCall
        /\ ret' = Call("create_faiss_index", <<>>, texts, metadata, r.status, r.index)
                     @@ [chunks |-> IF fail THEN <<>>
                                    ELSE all_chunks_and_metas(texts, metadata),
                         split |-> [i \in 1..Len(texts) |-> split_text(texts[i])]]
        /\ UNCHANGED <<writers, folders, versoes, faiss, now, session, nm>>

NextChunks ==
    \E texts \in ChunkInputs, fail \in BOOLEAN :
       \E metadata \in { <<>>, [i \in 1..Len(texts) |-> [source |-> Picked]] } :
          CreateFaissIndex(texts, metadata, fail)

SpecChunks == Init /\ [][NextChunks]_vars

---------------------------------------------------------------------------
(* src/embeddings/faiss_drive.py: upsert_texts_to_drive_index run by two
   sessions at once, on different documents *)

\* upsert up to the save of the document's shard: the metadata are enriched
\* and the texts are added to the shard of the document
UpsertDoc(w, doc_id, texts) ==
    /\ writers[w].pc = "idle"
    /\ \A v \in Writers : writers[v].pc # "idle" => writers[v].doc_id # doc_id
    /\ \E d \in load_add_save(faiss, name_for_doc(doc_id), texts,
                              enriched(doc_id, texts, <<>>, now), now) :
          /\ d.ok
          /\ faiss' = d.files
    /\ writers' = [writers EXCEPT ![w] =
          [Idle EXCEPT !.pc = "doc_saved", !.doc_id = doc_id, !.text = texts,
                       !.meta = enriched(doc_id, texts, <<>>, now), !.ts = now]]
    /\ folders' = faiss_folder_id(folders)
    /\ now' \in Ticks
    /\ UNCHANGED <<versoes, session, ret, nm>>

\* upsert: _load_or_create_index of the global shard
UpsertLoadGlobal(w) ==
    /\ writers[w].pc = "doc_saved"
    /\ \E l \in load_or_create_index(faiss, GLOBAL_INDEX_BASENAME) :
          writers' = [writers EXCEPT ![w].pc = "global_loaded", ![w].current = l.vs]
    /\ UNCHANGED <<folders, versoes, faiss, now, session, ret, nm>>

\* upsert: add_texts to the global index that was loaded, and _save_index
UpsertSaveGlobal(w) ==
    LET p == writers[w]
    IN  /\ p.pc = "global_loaded"
        /\ faiss' \in save_index(faiss, GLOBAL_INDEX_BASENAME,
                                 add_texts(p.current, p.text, p.meta), now)
        /\ writers' = [writers EXCEPT ![w].pc = "upserted"]
        /\ ret' = ShardCall("upsert", p.doc_id, p.text, <<>>, "ok", Len(p.text))
        /\ UNCHANGED <<folders, versoes, now, session, nm>>

\* the texts lists of the two sessions
RaceTextLists == { << <<"a">> >>, << <<"é">> >>, << <<"a">>, <<"é">> >> }

NextRaceShards ==
    \/ \E w \in Writers, d \in DocIds, t \in RaceTextLists : UpsertDoc(w, d, t)
    \/ \E w \in Writers : UpsertLoadGlobal(w)
    \/ \E w \in Writers : UpsertSaveGlobal(w)

SpecRaceShards == Init /\ [][NextRaceShards]_vars

---------------------------------------------------------------------------
(* src/embeddings/faiss_drive.py: upserts on every doc_id the function accepts *)

\* a doc_id whose shard name is the name of the global shard
GlobalDoc == << "_", "g", "l", "o", "b", "a", "l" >>

\* upsert_texts_to_drive_index takes any string as doc_id
AnyDocIds == DocIds \cup { GlobalDoc }

NextAnyDoc ==
    \/ \E d \in AnyDocIds, t \in TextLists : \E m \in MetadataLists(t) :
          Upsert(d, t, m, "none")
    \/ RebuildGlobal(FALSE)

SpecAnyDoc == Init /\ [][NextAnyDoc]_vars

---------------------------------------------------------------------------
(* Properties of the repository's operations (specification Spec) *)

IsPrefix(s, t) == Len(s) <= Len(t) /\ SubSeq(t, 1, Len(s)) = s

ManifestIds(files, doc_id) == find_file(files, json_name(doc_id))

IsBlob(f) == f.mime = TXT_MIME

\* C3: the versions list a read returns before a step is a prefix of the list
\* a read returns after it, and a document that has a manifest keeps one.
C3_AppendOnly ==
    [][\A d \in DocIds :
          /\ \A m \in Manifests(versoes, d) : \A m2 \in Manifests(versoes', d) :
                IsPrefix(m.versions, m2.versions)
          /\ Manifests(versoes, d) # {} => Manifests(versoes', d) # {}]_vars

\* C4: save_doc on a document whose manifest exists fails with AlreadyExists and
\* writes nothing, so that no document ever has two manifest files.
C4_CreateOnExistingFails ==
    /\ (ret.op = "save_doc" /\ ret.existed) => ret.status = "AlreadyExists"
    /\ \A d \in DocIds : Cardinality(ManifestIds(versoes, d)) <= 1

\* C5 as stated: append_version on a document without manifest fails with
\* FileNotFoundError and writes nothing.
C5_AppendOnAbsentFails ==
    [][(ret'.op = "append_version" /\ ~ret'.existed) =>
          (ret'.status = "FileNotFoundError" /\ versoes' = versoes)]_vars

\* C5 as amended: append_version on a document without manifest does not fail;
\* it creates the manifest, with the text as its only version when the text is
\* not empty (and then the blob of version 1), with no version otherwise.
C5_AppendOnAbsentCreates ==
    [][(ret'.op = "append_version" /\ ~ret'.existed) =>
          /\ ret'.status = "ok"
          /\ Manifests(versoes', ret'.doc_id) =
                { [id |-> ret'.doc_id, created_at |-> now,
                   versions |-> IF ret'.text = <<>> THEN <<>>
                                ELSE << [ts |-> now, text |-> ret'.text,
                                         meta |-> ret'.meta] >>] }
          /\ Len(versoes') = Len(versoes) + (IF ret'.text = <<>> THEN 1 ELSE 2)
          /\ SubSeq(versoes', 1, Len(versoes)) = versoes
          /\ ret'.text # <<>> =>
                /\ IsBlob(versoes'[Len(versoes')])
                /\ versoes'[Len(versoes')].name =
                      version_txt_name(ret'.doc_id, source_of(ret'.meta), 1)]_vars

C5_Witness ==
    /\ ret.op = "append_version"
    /\ ~ret.existed
    /\ ret.text # <<>>
    /\ \E m \in Manifests(versoes, ret.doc_id) : Len(m.versions) = 1

\* C6: get_doc raises FileNotFoundError exactly when the folder holds no file
\* named {doc_id}.json; otherwise it returns the manifest stored in such a file,
\* and in both cases it leaves every file as it was.
C6_GetDoc ==
    [][ret'.op = "get_doc" =>
          LET name == ret'.doc_id \o << ".", "j", "s", "o", "n" >>
              ids == { i \in 1..Len(versoes) : versoes[i].name = name }
          IN  /\ ret'.status = "FileNotFoundError" <=> ids = {}
              /\ ret'.status \in {"ok", "FileNotFoundError"}
              /\ ret'.status = "ok" =>
                    \E i \in ids : json_dumps(ret'.value) = versoes[i].data
              /\ versoes' = versoes
              /\ faiss' = faiss]_vars

C6_Witness ==
    /\ ret.op = "get_doc"
    /\ ret.status = "ok"
    /\ ret.value.versions = <<>>
    /\ \E d \in DocIds : ManifestIds(versoes, d) = {}

\* C7 as stated: append_version stamps the version it appends with
\* version_index = versions before + 1 and version_tag = {doc_id}_v{version_index}.
C7_AppendStamps ==
    [][(ret'.op = "append_version" /\ ret'.existed) =>
          \E fid \in ManifestIds(versoes, ret'.doc_id) :
             LET before == json_loads(versoes[fid].data).versions
                 after == json_loads(versoes'[fid].data).versions
                 k == Len(before) + 1
             IN  /\ Len(after) = k
                 /\ "version_index" \in DOMAIN after[k].meta
                 /\ after[k].meta["version_index"] = k
                 /\ "version_tag" \in DOMAIN after[k].meta
                 /\ after[k].meta["version_tag"] = ret'.doc_id \o <<"_", "v">> \o str(k)]_vars

\* C7 as amended: append_version appends the text with the meta exactly as the
\* caller passed it, adding no key; the index versions before + 1 goes only
\* into the name of the version blob.
C7_AppendKeepsMeta ==
    [][(ret'.op = "append_version" /\ ret'.existed) =>
          \E fid \in ManifestIds(versoes, ret'.doc_id) :
             LET before == json_loads(versoes[fid].data).versions
                 after == json_loads(versoes'[fid].data).versions
                 k == Len(before) + 1
             IN  /\ after = Append(before, [ts |-> now, text |-> ret'.text,
                                            meta |-> ret'.meta])
                 /\ Len(versoes') = Len(versoes) + 1
                 /\ IsBlob(versoes'[Len(versoes')])
                 /\ versoes'[Len(versoes')].name =
                       version_txt_name(ret'.doc_id, source_of(ret'.meta), k)]_vars

C7_Witness ==
    /\ ret.op = "append_version"
    /\ ret.existed
    /\ ret.meta # EmptyDict
    /\ \E m \in Manifests(versoes, ret.doc_id) :
          /\ Len(m.versions) = 2
          /\ m.versions[2].meta = ret.meta

\* C8: after save_doc on a document without manifest, get_doc returns a manifest
\* with exactly one version holding the text when the text is not empty, and
\* with no version, no blob having been written, when it is empty.
C8_CreateThenGet ==
    [][(ret'.op = "save_doc" /\ ~ret'.existed) =>
          \A r \in get_doc(versoes', ret'.doc_id) :
             /\ r.status = "ok"
             /\ ret'.text # <<>> =>
                   /\ Len(r.value.versions) = 1
                   /\ r.value.versions[1].text = ret'.text
             /\ ret'.text = <<>> =>
                   /\ r.value.versions = <<>>
                   /\ Len(versoes') = Len(versoes) + 1
                   /\ ~IsBlob(versoes'[Len(versoes')])]_vars

C8_Witness ==
    /\ ret.op = "save_doc"
    /\ ~ret.existed
    /\ ret.text = <<"é">>
    /\ \A r \in get_doc(versoes, ret.doc_id) :
          r.status = "ok" /\ Len(r.value.versions) = 1

\* C9: every version blob holds the bytes of the text of the manifest entry it
\* is named after (the document's slug, the entry's source, the entry's index);
\* stated for the folders in which no document has a second manifest file.
C9_BlobEqualsEntry ==
    (\A d \in DocIds : Cardinality(ManifestIds(versoes, d)) <= 1) =>
    \A i \in 1..Len(versoes) : \A d \in DocIds : \A m \in Manifests(versoes, d) :
       \A k \in 1..Len(m.versions) :
          (IsBlob(versoes[i]) /\
           versoes[i].name = version_txt_name(d, source_of(m.versions[k].meta), k))
             => versoes[i].data = encode_utf8(m.versions[k].text)

---------------------------------------------------------------------------
(* Properties of the shards (specification SpecShards) *)

\* the entries a shard blob yields when it is loaded: none when it does not load
EntriesOf(files, name) ==
    UNION { LET r == load_vectorstore_from_zip_bytes(files[i].data)
            IN  IF r.ok THEN { r.vs[k] : k \in 1..Len(r.vs) } ELSE {} :
               i \in find_file(files, name) }

\* C2: the entries of the global shard include the entries of every
\* per-document shard.
C2_GlobalSuperset ==
    \A d \in DocIds :
       EntriesOf(faiss, name_for_doc(d)) \subseteq EntriesOf(faiss, GLOBAL_INDEX_BASENAME)

\* a step of upsert_texts_to_drive_index (the call is ret')
UpsertStep ==
    /\ ret'.op = "upsert"
    /\ IF ret'.text = <<>> THEN faiss' = faiss /\ now' = now ELSE now' = now + 1

\* the stores that the blobs of a name load to
ShardStores(files, name) ==
    { load_vectorstore_from_zip_bytes(files[i].data).vs :
         i \in { j \in find_file(files, name) :
                    load_vectorstore_from_zip_bytes(files[j].data).ok } }

\* the entries an upsert call made at time ts adds for its texts
NewEntries(call, ts) ==
    LET metas == enriched(call.doc_id, call.text, call.meta, ts)
    IN  [i \in 1..Len(call.text) |-> Entry(call.text[i], metas[i])]

\* the blob of a name holds, after the step, the store it loaded to before the
\* step (the placeholder alone when it was absent or did not load) followed by
\* the entries of the call
Extended(name) ==
    /\ Cardinality(find_file(faiss', name)) = 1
    /\ \E l \in load_or_create_index(faiss, name) :
          ShardStores(faiss', name) = { l.vs \o NewEntries(ret', now) }

\* C11 as stated: every upsert call that returns has persisted the shard of
\* the document and the global shard, each extended with the texts and
\* metadata of the call, and reports len(texts).
C11_UpsertPersistsBoth ==
    [][(UpsertStep /\ ret'.status = "ok") =>
          /\ Extended(name_for_doc(ret'.doc_id))
          /\ Extended(GLOBAL_INDEX_BASENAME)
          /\ ret'.value = Len(ret'.text)]_vars

\* C11 as amended: an upsert call with no texts returns 0 and writes nothing;
\* every other upsert call that returns has persisted both shards, each
\* extended with the same texts and metadata, and reports len(texts).
C11_UpsertPersistsBothUnlessEmpty ==
    [][(UpsertStep /\ ret'.status = "ok") =>
          IF ret'.text = <<>>
          THEN faiss' = faiss /\ folders' = folders /\ ret'.value = 0
          ELSE /\ Extended(name_for_doc(ret'.doc_id))
               /\ Extended(GLOBAL_INDEX_BASENAME)
               /\ ret'.value = Len(ret'.text)]_vars

\* an upsert of two texts has returned, on a document that had a shard
C11_Witness ==
    /\ ret.op = "upsert" /\ ret.status = "ok" /\ Len(ret.text) = 2
    /\ \E vs \in ShardStores(faiss, name_for_doc(ret.doc_id)) : Len(vs) > 3

\* an upsert call that returns right after a call with the same (doc_id, texts)
\* that returned
SecondUpsert ==
    /\ UpsertStep /\ ret'.status = "ok" /\ ret'.text # <<>>
    /\ ret.op = "upsert" /\ ret.status = "ok"
    /\ ret'.doc_id = ret.doc_id /\ ret'.text = ret.text

\* C12 as stated: after the second of two upsert calls with the same
\* (doc_id, texts), the shard of the document has twice the entries it had
\* after the first.
C12_SecondCallDoubles ==
    [][SecondUpsert =>
          \A vs \in ShardStores(faiss, name_for_doc(ret.doc_id)) :
             \A ws \in ShardStores(faiss', name_for_doc(ret.doc_id)) :
                Len(ws) = 2 * Len(vs)]_vars

\* C12 as amended: the second call appends its len(texts) entries after the
\* entries the shard had after the first call, the same texts once more; the
\* placeholder and the earlier entries are not doubled.
C12_SecondCallAppendsAgain ==
    [][SecondUpsert =>
          \A vs \in ShardStores(faiss, name_for_doc(ret.doc_id)) :
             \A ws \in ShardStores(faiss', name_for_doc(ret.doc_id)) :
                LET n == Len(ret.text)
                IN  /\ Len(ws) = Len(vs) + n
                    /\ SubSeq(ws, 1, Len(vs)) = vs
                    /\ \A i \in 1..n :
                          /\ ws[Len(vs) + i].text = ret.text[i]
                          /\ vs[Len(vs) - n + i].text = ret.text[i]]_vars

\* two calls with the same texts on a document without shard have returned:
\* the shard holds the placeholder and the texts twice
C12_Witness ==
    /\ ret.op = "upsert" /\ ret.status = "ok" /\ ret.text # <<>>
    /\ \E vs \in ShardStores(faiss, name_for_doc(ret.doc_id)) :
          LET n == Len(ret.text)
          IN  /\ Len(vs) = 1 + 2 * n
              /\ vs[1].text = Bootstrap
              /\ \A i \in 1..n : vs[1 + i].text = ret.text[i] /\ vs[1 + n + i].text = ret.text[i]

\* a call of rebuild_global_from_all_docs (every step records in ret' what it did)
RebuildStep == ret'.op = "rebuild_global"

\* the per-document shard blobs of the folder that load
LoadableDocZips(files) ==
    { i \in 1..Len(files) :
         /\ endswith(files[i].name, FaissSuffix)
         /\ files[i].name # GLOBAL_INDEX_BASENAME
         /\ load_vectorstore_from_zip_bytes(files[i].data).ok }

StoreOf(files, i) == load_vectorstore_from_zip_bytes(files[i].data).vs

\* the shards were produced by one embedding function
SameEmbedding(files) ==
    \A i, j \in LoadableDocZips(files) : dim_of(StoreOf(files, i)) = dim_of(StoreOf(files, j))

RECURSIVE SumEntries(_, _)
SumEntries(files, ids) ==
    IF ids = {} THEN 0
    ELSE LET i == CHOOSE j \in ids : TRUE
         IN  Len(StoreOf(files, i)) + SumEntries(files, ids \ {i})

C14_RebuildOfNothing ==
    [][(RebuildStep /\ LoadableDocZips(faiss) = {} /\ ret'.status # "EmbeddingError") =>
          /\ ret'.status = "ok"
          /\ ret'.value = 0
          /\ Cardinality(find_file(faiss', GLOBAL_INDEX_BASENAME)) = 1
          /\ ShardStores(faiss', GLOBAL_INDEX_BASENAME) = { empty_index }]_vars

\* a rebuild has returned in a folder whose only per-document shard does not load
C14_Witness ==
    /\ ret.op = "rebuild_global" /\ ret.status = "ok" /\ ret.value = 0
    /\ LoadableDocZips(faiss) = {}
    /\ \E i \in 1..Len(faiss) :
          faiss[i].name # GLOBAL_INDEX_BASENAME /\ faiss[i].data = Garbage
    /\ ShardStores(faiss, GLOBAL_INDEX_BASENAME) = { empty_index }

\* the per-document shard blobs of the folder that do not load
BadDocZips(files) ==
    { i \in 1..Len(files) :
         /\ endswith(files[i].name, FaissSuffix)
         /\ files[i].name # GLOBAL_INDEX_BASENAME
         /\ ~load_vectorstore_from_zip_bytes(files[i].data).ok }

ContainsRun(g, vs) ==
    \E k \in 0..(Len(g) - Len(vs)) : SubSeq(g, k + 1, k + Len(vs)) = vs

C16_MergeFailureSkipped ==
    [][(RebuildStep /\ LoadableDocZips(faiss) # {}) =>
          /\ ret'.status = "ok"
          /\ \E g \in ShardStores(faiss', GLOBAL_INDEX_BASENAME) :
                \E i \in LoadableDocZips(faiss) : ContainsRun(g, StoreOf(faiss, i))]_vars

\* the blob of a name exists and does not load
Corrupt(files, name) ==
    /\ find_file(files, name) # {}
    /\ \A i \in find_file(files, name) : ~load_vectorstore_from_zip_bytes(files[i].data).ok

ShardNames == { name_for_doc(d) : d \in DocIds } \cup { GLOBAL_INDEX_BASENAME }

\* _load_or_create_index on a corrupt blob gives what it gives on an absent one
CorruptLoadsAsAbsent ==
    \A name \in ShardNames :
       Corrupt(faiss, name) =>
          load_or_create_index(faiss, name) = load_or_create_index(<<>>, name)

\* C17: _load_or_create_index on a corrupt blob returns the placeholder-only
\* store with existed = false, as on an absent blob, and an upsert that
\* returns has replaced each corrupt blob it wrote to, in place, by a shard
\* that loads and holds the placeholder and the texts of the call; with a
\* corrupt shard of the document the call can only fail in the embedding or
\* on a global shard of another dimensionality.
C17_CorruptShardReplaced ==
    /\ []CorruptLoadsAsAbsent
    /\ [][(UpsertStep /\ ret'.text # <<>>) =>
             /\ \A name \in { name_for_doc(ret'.doc_id), GLOBAL_INDEX_BASENAME } :
                   (Corrupt(faiss, name) /\ ret'.status = "ok") =>
                      /\ Cardinality(find_file(faiss', name)) = 1
                      /\ find_file(faiss', name) = find_file(faiss, name)
                      /\ ShardStores(faiss', name) = { empty_index \o NewEntries(ret', now) }
             /\ (Corrupt(faiss, name_for_doc(ret'.doc_id))
                   /\ ret'.status \notin {"ok", "EmbeddingError"}) =>
                   \E g \in ShardStores(faiss, GLOBAL_INDEX_BASENAME) :
                      dim_of(g) # NativeDim]_vars

\* an upsert has returned on a document whose shard blob was corrupt: the
\* blob now loads, and the entries it held before the corruption are gone
C17_Witness ==
    /\ ret.op = "upsert" /\ ret.status = "ok" /\ ret.text # <<>>
    /\ ShardStores(faiss, name_for_doc(ret.doc_id)) = { empty_index \o NewEntries(ret, now - 1) }
    /\ \E g \in ShardStores(faiss, GLOBAL_INDEX_BASENAME) : \E k \in 1..Len(g) :
          /\ "doc_id" \in DOMAIN g[k].metadata
          /\ g[k].metadata["doc_id"] = ret.doc_id
          /\ g[k].metadata["created_at"] < now - 1

\* the number of times a step of the call handed the texts of the call to
\* the embedding function
AddEmbeddings(call, step) ==
    Cardinality({ k \in 1..Len(call.embedded) :
                     call.embedded[k].step = step /\ call.embedded[k].texts = call.text })

\* C19: an upsert whose embedding call fails ends with that failure, having
\* saved nothing in the failing step and made no embedding call after it;
\* in every upsert call each of the two add steps embeds the texts at most
\* once, and exactly once in a call that returns.
C19_EmbeddingFailurePropagates ==
    [][(UpsertStep /\ ret'.text # <<>>) =>
          /\ AddEmbeddings(ret', "doc") <= 1
          /\ AddEmbeddings(ret', "global") <= 1
          /\ ret'.status = "ok" =>
                AddEmbeddings(ret', "doc") = 1 /\ AddEmbeddings(ret', "global") = 1
          /\ ret'.failed = "doc" =>
                /\ ret'.status = "EmbeddingError"
                /\ faiss' = faiss
                /\ AddEmbeddings(ret', "global") = 0
                /\ ret'.embedded[Len(ret'.embedded)].texts = ret'.text
          /\ ret'.failed = "global" =>
                /\ ret'.status = "EmbeddingError"
                /\ \A i \in find_file(faiss, GLOBAL_INDEX_BASENAME) : faiss'[i] = faiss[i]
                /\ find_file(faiss', GLOBAL_INDEX_BASENAME) = find_file(faiss, GLOBAL_INDEX_BASENAME)
                /\ ret'.embedded[Len(ret'.embedded)] = [step |-> "global", texts |-> ret'.text]
          /\ ret'.status = "EmbeddingError" => ret'.failed # "none"]_vars

\* an upsert has ended with the embedding failure of its global step
C19_Witness ==
    /\ ret.op = "upsert" /\ ret.status = "EmbeddingError" /\ ret.failed = "global"
    /\ AddEmbeddings(ret, "doc") = 1 /\ AddEmbeddings(ret, "global") = 1

---------------------------------------------------------------------------
(* Properties of the editor's saves (specification SpecEditor) *)

\* C1: every version of every manifest carries, in meta.version_index, its
\* 1-based position in the manifest's versions list.
C1_VersionIndexIsPosition ==
    \A d \in DocIds : \A m \in Manifests(versoes, d) : \A k \in 1..Len(m.versions) :
       /\ "version_index" \in DOMAIN m.versions[k].meta
       /\ m.versions[k].meta["version_index"] = k

---------------------------------------------------------------------------
(* Properties of the blob names (specification SpecNames) *)

Named == nm.a # <<>>

\* C10 as stated: of two version blobs of a document, the one of the earlier
\* version (the smaller index) has the lexically smaller name, whatever the
\* sources and the indexes.
C10_NamesSortChronologically ==
    Named => StrLess(nm.a, nm.b)

\* C10 as amended: of two version blobs of a document that carry the same
\* source tag and indexes of at most 999, the one of the earlier version has
\* the lexically smaller name.
C10_NamesSortWithinSource ==
    (Named /\ nm.source_a = nm.source_b /\ nm.index_b <= 999) => StrLess(nm.a, nm.b)

C10_Witness ==
    /\ Named
    /\ nm.source_a = nm.source_b
    /\ nm.index_a = 99
    /\ nm.index_b = 100
    /\ StrLess(nm.a, nm.b)

---------------------------------------------------------------------------
(* Properties of the repository on damaged manifests (specification SpecCorrupt) *)

\* the files of a document's manifest name whose bytes do not parse
CorruptManifests(files, doc_id) ==
    { i \in find_file(files, json_name(doc_id)) : ~json_ok(files[i].data) }

\* C18: get_doc and append_version on a document whose manifest does not parse
\* end as on an empty or missing manifest, never with the parse error, and
\* after a save_doc or append_version that returns, no manifest file of the
\* document is left corrupt.
C18_CorruptManifestDegrades ==
    [][/\ (ret'.op \in {"get_doc", "append_version"}
             /\ CorruptManifests(versoes, ret'.doc_id) # {}) =>
             ret'.status \in {"ok", "FileNotFoundError"}
       /\ (ret'.op \in {"save_doc", "append_version"} /\ ret'.status = "ok") =>
             CorruptManifests(versoes', ret'.doc_id) = {}]_vars

---------------------------------------------------------------------------
(* Properties of the retrieval (specification SpecAssistente) *)

\* C20: the documents the retriever of the global shard returns never include
\* the placeholder entry; on a shard that holds the placeholder alone the
\* result is empty.
C20_PlaceholderNeverRetrieved ==
    ret.op = "search" => \A e \in ret.value : e.text # Bootstrap

---------------------------------------------------------------------------
(* Properties of concurrent appends (specification SpecRace) *)

\* both sessions have completed an append to one manifest file that each read
\* before the other wrote it
BothReadFirst ==
    /\ \A w \in Writers : writers[w].pc = "done"
    /\ writers[1].fid = writers[2].fid
    /\ writers[1].doc_id = writers[2].doc_id
    /\ writers[1].current = writers[2].current

\* the session that wrote the manifest last
LastWriter == CHOOSE w \in Writers : writers[w].order = Cardinality(Writers)

\* the blobs named for version k of the document of session w
BlobsOf(w, k) ==
    { i \in 1..Len(versoes) :
         /\ IsBlob(versoes[i])
         /\ versoes[i].name =
               version_txt_name(writers[w].doc_id, source_of(writers[w].meta), k) }

\* C21: when two appends both read the manifest before either wrote it, the
\* manifest after both holds the versions both read and the version of the
\* last writer alone, nothing detects it, and both sessions wrote their blob
\* with the same index.
C21_LastWriterWins ==
    BothReadFirst =>
       LET p == writers[LastWriter]
           n == Len(p.current.versions)
       IN  /\ json_loads(versoes[p.fid].data).versions =
                 Append(p.current.versions, appended_version(p.text, p.meta, p.ts))
           /\ ret.status = "ok"
           /\ \A w \in Writers : BlobsOf(w, n + 1) # {}
           /\ \A w \in Writers : BlobsOf(w, n + 2) = {}

\* two appends of different texts have raced on a manifest with one version
C21_Witness ==
    /\ BothReadFirst
    /\ writers[1].text # writers[2].text
    /\ Len(writers[1].current.versions) = 1
    /\ Len(json_loads(versoes[writers[1].fid].data).versions) = 2

---------------------------------------------------------------------------
(* Properties of the stored metadata (specification SpecMeta) *)

\* the value of a key in the metadata of the text at position i of an upsert
\* call: the caller's when the caller supplied the key, else the default
KeptOrDefault(call, i, key, default) ==
    IF call.meta # <<>> /\ key \in DOMAIN call.meta[i]
    THEN call.meta[i][key]
    ELSE default

\* C22: every entry stored in any shard has metadata with doc_id and
\* created_at; the entries of an upsert carry the caller's doc_id and
\* created_at where the caller supplied them, and the doc_id argument and the
\* time of the call where not.
C22_EveryEntryHasDocIdAndCreatedAt ==
    /\ \A d \in DocIds \cup {GLOBAL_INDEX_BASENAME} :
          \A e \in EntriesOf(faiss, IF d \in DocIds THEN name_for_doc(d) ELSE d) :
             {"doc_id", "created_at"} \subseteq DOMAIN e.metadata
    /\ (ret.op = "upsert" /\ ret.status = "ok" /\ ret.text # <<>>) =>
          \A vs \in ShardStores(faiss, name_for_doc(ret.doc_id))
                       \cup ShardStores(faiss, GLOBAL_INDEX_BASENAME) :
             \A i \in 1..Len(ret.text) :
                LET e == vs[Len(vs) - Len(ret.text) + i]
                IN  /\ e.text = ret.text[i]
                    /\ "doc_id" \in DOMAIN e.metadata
                    /\ "created_at" \in DOMAIN e.metadata
                    /\ e.metadata["doc_id"] = KeptOrDefault(ret, i, "doc_id", ret.doc_id)
                    /\ e.metadata["created_at"] =
                          KeptOrDefault(ret, i, "created_at", now - 1)

---------------------------------------------------------------------------
(* Properties of the chunking (specification SpecChunks) *)

\* create_faiss_index has returned an index
Chunked == ret.op = "create_faiss_index" /\ ret.status = "ok"

EmptyTexts == { i \in 1..Len(ret.text) : ret.text[i] = <<>> }

\* the chunks handed to the index, without their metadata
AllChunks == [k \in 1..Len(ret.chunks) |-> ret.chunks[k].chunk]

\* the number of chunks that the texts before text i produced
RECURSIVE ChunksBefore(_)
ChunksBefore(i) == IF i = 1 THEN 0 ELSE ChunksBefore(i - 1) + Len(ret.split[i - 1])

\* C23 as stated: the chunks of an input list that contains empty texts are
\* never an empty list and hold the single-space chunk for the empty texts,
\* whatever else the list holds.
C23_EmptyTextYieldsPlaceholder ==
    (Chunked /\ EmptyTexts # {}) =>
       /\ AllChunks # <<>>
       /\ Len(SelectSeq(AllChunks, LAMBDA c : c = << " " >>)) \in 1..Cardinality(EmptyTexts)

\* C23 as amended: the list of chunks is never empty; it is the single space
\* with empty metadata exactly when no text of the list yields a chunk, and
\* otherwise the chunks of the texts in order, where an empty text yields none.
C23_PlaceholderOnlyWhenNoChunks ==
    Chunked =>
       /\ AllChunks # <<>>
       /\ \A i \in EmptyTexts : ret.split[i] = <<>>
       /\ IF \A i \in 1..Len(ret.text) : ret.split[i] = <<>>
          THEN ret.chunks = << [chunk |-> << " " >>, meta |-> EmptyDict] >>
          ELSE /\ Len(AllChunks) = ChunksBefore(Len(ret.text) + 1)
               /\ \A i \in 1..Len(ret.text) : \A k \in 1..Len(ret.split[i]) :
                     AllChunks[ChunksBefore(i) + k] = ret.split[i][k]

\* an empty text was chunked alone
C23_Witness ==
    /\ Chunked
    /\ ret.text = << <<>> >>
    /\ AllChunks = << << " " >> >>

\* the overlap of two consecutive chunks is exactly ChunkOverlap characters
OverlapExact(c, d) ==
    /\ Len(c) >= ChunkOverlap
    /\ Len(d) >= ChunkOverlap
    /\ SubSeq(c, Len(c) - ChunkOverlap + 1, Len(c)) = SubSeq(d, 1, ChunkOverlap)

\* the chunks from k on, each without the overlap at its start
RECURSIVE Unoverlapped(_, _)
Unoverlapped(chunks, k) ==
    IF k > Len(chunks) THEN <<>>
    ELSE SubSeq(chunks[k], ChunkOverlap + 1, Len(chunks[k])) \o Unoverlapped(chunks, k + 1)

\* C24: for a text longer than the chunk size, consecutive chunks overlap by
\* exactly the overlap size, and the chunks joined without the overlaps are
\* the text.
C24_OverlapReconstructs ==
    (Chunked /\ Len(ret.text) = 1 /\ Len(ret.text[1]) > ChunkSize) =>
       LET chunks == ret.split[1]
       IN  /\ \A k \in 1..(Len(chunks) - 1) : OverlapExact(chunks[k], chunks[k + 1])
           /\ chunks # <<>>
           /\ chunks[1] \o Unoverlapped(chunks, 2) = ret.text[1]

---------------------------------------------------------------------------
(* Properties of one run of save-and-index (specification SpecEditor) *)

\* a step of _save_and_index (the call is ret')
SaveStep == ret'.op = "save_and_index" /\ now' = now + 1

\* the versions of a document's manifest, none when it has no manifest
VersionsOf(files, doc_id) ==
    IF Manifests(files, doc_id) = {} THEN <<>>
    ELSE (CHOOSE m \in Manifests(files, doc_id) : TRUE).versions

\* the number of version blobs in the folder
Blobs(files) == Cardinality({ i \in 1..Len(files) : IsBlob(files[i]) })

\* C25: each successful run of save-and-index adds exactly one version to the
\* document's manifest and writes exactly one version blob, the first save of
\* a document without manifest included.
C25_SaveAddsOneVersionOneBlob ==
    [][(SaveStep /\ ret'.status = "ok") =>
          /\ Len(VersionsOf(versoes', ret'.doc_id))
                = Len(VersionsOf(versoes, ret'.doc_id)) + 1
          /\ Blobs(versoes') = Blobs(versoes) + 1]_vars

\* the blobs of version k of a document that hold the text of the version
BlobsOfVersion(files, doc_id, v, k) ==
    { i \in 1..Len(files) :
         /\ IsBlob(files[i])
         /\ files[i].name = version_txt_name(doc_id, source_of(v.meta), k)
         /\ files[i].data = encode_utf8(v.text) }

\* C29: a version blob written by the editor flow carries in its name the
\* version_index that the meta of its manifest entry records.
C29_BlobIndexIsMetaIndex ==
    \A d \in DocIds : \A m \in Manifests(versoes, d) : \A k \in 1..Len(m.versions) :
       ("version_index" \in DOMAIN m.versions[k].meta
           /\ BlobsOfVersion(versoes, d, m.versions[k], k) # {})
          => m.versions[k].meta["version_index"] = k

\* the last version of the manifest holds the text of the call
LastIsText(files, call) ==
    LET vs == VersionsOf(files, call.doc_id)
    IN  vs # <<>> /\ vs[Len(vs)].text = call.text

\* a run of save-and-index whose upsert failed
FailedSave == SaveStep /\ ret'.status = "EmbeddingError"

\* a run of save-and-index that repeats the failed run before it
RepeatedSave ==
    /\ ret.op = "save_and_index" /\ ret.status = "EmbeddingError"
    /\ SaveStep
    /\ ret'.doc_id = ret.doc_id /\ ret'.text = ret.text

\* the stored texts of the shard blobs of a name
TextsOf(files, name) == { e.text : e \in EntriesOf(files, name) }

---------------------------------------------------------------------------
(* Properties of concurrent upserts (specification SpecRaceShards) *)

\* both sessions have completed their upsert
BothUpserted == \A w \in Writers : writers[w].pc = "upserted"

\* the entries the upsert of session w added for its texts
EntriesOfWriter(w) ==
    { Entry(writers[w].text[i], writers[w].meta[i]) : i \in 1..Len(writers[w].text) }

\* C26: when two upserts for different documents have both completed, however
\* their loads and saves interleaved, the global shard holds the texts of both.
C26_GlobalHoldsBoth ==
    BothUpserted =>
       \A w \in Writers :
          EntriesOfWriter(w) \subseteq EntriesOf(faiss, GLOBAL_INDEX_BASENAME)

---------------------------------------------------------------------------
(* Properties of the shard names (specification SpecAnyDoc) *)

\* the files a rebuild merges
RebuildSources == { all_doc_zips(faiss)[k] : k \in 1..Len(all_doc_zips(faiss)) }

\* C27: after an upsert for any doc_id, the shard of the document has a name
\* other than the global shard's, the two are distinct blobs, and a rebuild
\* counts the shard of the document among its sources.
C27_DocShardIsNotGlobalShard ==
    (ret.op = "upsert" /\ ret.status = "ok" /\ ret.text # <<>>) =>
       LET doc == find_file(faiss, name_for_doc(ret.doc_id))
           glob == find_file(faiss, GLOBAL_INDEX_BASENAME)
       IN  /\ name_for_doc(ret.doc_id) # GLOBAL_INDEX_BASENAME
           /\ doc # {} /\ glob # {}
           /\ doc \cap glob = {}
           /\ doc \subseteq RebuildSources

---------------------------------------------------------------------------
(* Properties of the blob names in a folder (specification Spec) *)

\* the (doc_id, source, version_index) of the versions in the manifests of a folder
Triples(files) ==
    { t \in DocIds \X Sources \X (1..MaxFiles) :
         \E m \in Manifests(files, t[1]) :
            /\ t[3] <= Len(m.versions)
            /\ source_of(m.versions[t[3]].meta) = t[2] }

\* C28: the versions of a folder that differ in doc_id, source or index have
\* different blob names, and no two blobs of the folder have the same name.
C28_BlobNamesUnique ==
    /\ \A t \in Triples(versoes) : \A u \in Triples(versoes) :
          t # u => version_txt_name(t[1], t[2], t[3]) # version_txt_name(u[1], u[2], u[3])
    /\ \A i \in 1..Len(versoes) : \A j \in 1..Len(versoes) :
          (IsBlob(versoes[i]) /\ IsBlob(versoes[j]) /\ versoes[i].name = versoes[j].name)
             => i = j

====
